---- MODULE Spec2Model ----
(***************************************************************************)
(* Model of Tools/GenericThermTableh.py, the generator of the generic NTC  *)
(* thermistor tables (thermistortable_600.h, _601.h, _0.h).                *)
(*                                                                         *)
(* Real numbers are rendered in fixed point:                               *)
(*   log-ratios (rlvals)       in units of 1/LnScale                       *)
(*   temperatures (tx, oldTx)  in units of 1/TempScale degree              *)
(*   resistances               as reduced fractions <<num, den>>           *)
(* All intermediate products are kept below 2^31 by MulDiv.                *)
(***************************************************************************)
EXTENDS Integers, Sequences, FiniteSets, TLC

VARIABLES cfg, pc, numResult, adc, rlvals, t, i,
          temperatureStepSize, oldTx, lines, fout, files, stdout, call

vars == <<cfg, pc, numResult, adc, rlvals, t, i,
          temperatureStepSize, oldTx, lines, fout, files, stdout, call>>

progVars == <<cfg, pc, numResult, adc, rlvals, t, i,
              temperatureStepSize, oldTx, lines, fout, files, stdout>>

----------------------------------------------------------------------------
(* Module configuration constants                                          *)

tbls == <<600, 601, 0>>
rRef == 100000
rPullup == 4700
adcFS == 1023
maxTemp == 300
minTemp == -15
TXBETA1 == 3380
TXBETA2 == 3950
TXBETA3 == 4500
adcStartDefault == 20
adcStopDefault == 1020

(* v2r is exercised on codes 0 .. adcFS + BeyondFS *)
BeyondFS == 2

(* Fixed-point scales *)
LnScale == 10^8
TempScale == 10^5
DenScale == 2 * 10^4
Half == 2^15
SeriesScale == Half * Half
MaxInt == (2^30 - 1) + 2^30

(* tZero = 273.15, in 1/TempScale degree *)
tZero == 27315 * (TempScale \div 100)

----------------------------------------------------------------------------
(* Integer helpers                                                         *)

Abs(x) == IF x < 0 THEN -x ELSE x

RECURSIVE GCD(_, _)
GCD(a, b) == IF b = 0 THEN Abs(a) ELSE GCD(b, a % Abs(b))

(* the largest of these radices R with R * (a + c) <= MaxInt *)
Radix(a, c) ==
    LET m == MaxInt \div (a + c)
    IN  IF m >= 2^13 THEN 2^13
        ELSE IF m >= 2^8 THEN 2^8
        ELSE IF m >= 16 THEN 16
        ELSE IF m >= 8 THEN 8
        ELSE IF m >= 4 THEN 4
        ELSE 2

RECURSIVE MulDivRec(_, _, _, _)
(* <<q, r>> with a*b = q*c + r and 0 <= r < c, for a, b >= 0, c > 0, one   *)
(* radix-R digit of b at a time; the product a*b itself is never formed.   *)
MulDivRec(a, b, c, R) ==
    IF b = 0 THEN <<0, 0>>
    ELSE LET h == MulDivRec(a, b \div R, c, R)
             s == R * h[2] + (b % R) * a
         IN  <<R * h[1] + (s \div c), s % c>>

MulDivQR(a, b, c) == MulDivRec(a, b, c, Radix(a, c))

(* floor(a*b/c) *)
MulDiv(a, b, c) == MulDivQR(a, b, c)[1]

(* a*b/c rounded to nearest *)
MulDivR(a, b, c) ==
    LET h == MulDivQR(a, b, c)
    IN  IF 2 * h[2] >= c THEN h[1] + 1 ELSE h[1]

(* x*m/c rounded to nearest, x of either sign *)
SMulDivR(x, m, c) == IF x < 0 THEN -MulDivR(m, -x, c) ELSE MulDivR(m, x, c)

RoundDiv(a, c) == (a + c \div 2) \div c

(* x*y of two fractions in units of 1/SeriesScale *)
FMul(x, y) ==
    LET xh == x \div Half
        xl == x % Half
        yh == y \div Half
        yl == y % Half
    IN  xh * yh + (xh * yl + xl * yh + (xl * yl) \div Half + Half \div 2) \div Half

RECURSIVE Log2Floor(_)
Log2Floor(n) == IF n < 2 THEN 0 ELSE 1 + Log2Floor(n \div 2)

----------------------------------------------------------------------------
(* Rationals <<n, d>>, d > 0, in lowest terms                              *)

RNorm(n, d) ==
    LET g == GCD(n, d)
        sgn == IF d < 0 THEN -1 ELSE 1
    IN  <<sgn * (n \div g), sgn * (d \div g)>>

RInt(n) == <<n, 1>>

RMul(p, q) ==
    LET g1 == GCD(p[1], q[2])
        g2 == GCD(q[1], p[2])
    IN  RNorm((p[1] \div g1) * (q[1] \div g2), (p[2] \div g2) * (q[2] \div g1))

(* q[1] # 0 *)
RDiv(p, q) == RMul(p, RNorm(q[2], q[1]))

RAdd(p, q) ==
    LET g == GCD(p[2], q[2])
    IN  RNorm(p[1] * (q[2] \div g) + q[1] * (p[2] \div g), p[2] * (q[2] \div g))

RSub(p, q) == RAdd(p, <<-q[1], q[2]>>)

----------------------------------------------------------------------------
(* np.log, in fixed point: ln n = k ln 2 + 2 atanh((m-1)/(m+1)),           *)
(* m = n / 2^k in [1, 2)                                                   *)

RECURSIVE AtanhSum(_, _, _)
(* p/(2j+1) + p z2/(2j+3) + ... *)
AtanhSum(p, z2, j) ==
    IF p = 0 THEN 0
    ELSE RoundDiv(p, 2 * j + 1) + AtanhSum(FMul(p, z2), z2, j + 1)

(* atanh z = z + z^3/3 + z^5/5 + ..., 0 <= z <= 1/3, in 1/SeriesScale *)
Atanh(z) == AtanhSum(z, FMul(z, z), 0)

Ln2 == 2 * Atanh(RoundDiv(SeriesScale, 3))

(* a * v, v in 1/SeriesScale, converted to 1/LnScale: LnScale/SeriesScale  *)
(* is 5^8/2^22                                                             *)
ToLnScale(a, v) == MulDivR(a * 5^8, v, 2^22)

(* ln n in units of 1/LnScale, n a positive integer *)
LnInt(n) ==
    LET k == Log2Floor(n)
        z == MulDivR(n - 2^k, SeriesScale, n + 2^k)
    IN  ToLnScale(1, 2 * Atanh(z)) + ToLnScale(k, Ln2)

(* ln of a positive rational *)
Log(q) == LnInt(q[1]) - LnInt(q[2])

----------------------------------------------------------------------------
(* Functions                                                               *)

(* def v2r(vr): vrs = vr/adcFS; return (vrs*rPullup)/(1-vrs)               *)
(* ty is the type of the argument: for a numpy float64 (what the program   *)
(* passes) a division by zero yields inf, for a Python number it raises.   *)
v2r(vr, ty) ==
    LET vrs == RDiv(RInt(vr), RInt(adcFS))
        den == RSub(RInt(1), vrs)
    IN  IF den[1] = 0
        THEN IF ty = "float64" THEN [kind |-> "inf"]
                               ELSE [kind |-> "ZeroDivisionError"]
        ELSE [kind |-> "value", val |-> RDiv(RMul(vrs, RInt(rPullup)), den)]

(* r2v dividing by r + rRef *)
r2v_WrongResistor(r) == RMul(RInt(adcFS), RDiv(r, RAdd(r, RInt(rRef))))

(* def r2v(r): return adcFS*r/(r+rPullup)                                  *)
(* evaluated as adcFS*(r/(r+rPullup)), the same rational, so that the      *)
(* intermediate adcFS*r stays in range                                     *)
r2v(r) == RMul(RInt(adcFS), RDiv(r, RAdd(r, RInt(rPullup))))

(* np.log(v2r(adc[i])/rRef), for 0 < code < adcFS *)
RlVal(code) == Log(RDiv(v2r(code, "float64").val, RInt(rRef)))

(* the projection with 1/T0 - x/B *)
Steinhart_SignFlipped(x, B) ==
    LET T0K == 25 * TempScale + tZero
        den == B * DenScale
               - SMulDivR(x, T0K \div 5000,
                          (TempScale \div 5000) * (LnScale \div DenScale))
    IN  MulDiv(T0K, B * DenScale, den) - tZero + TempScale \div 2

(* 1.0/(1.0/(25.0+tZero)+x/B)-tZero+0.5                                    *)
(*   = (25+tZero)*B / (B + (25+tZero)*x) - tZero + 0.5                     *)
Steinhart(x, B) ==
    LET T0K == 25 * TempScale + tZero
        den == B * DenScale
               + SMulDivR(x, T0K \div 5000,
                          (TempScale \div 5000) * (LnScale \div DenScale))
    IN  MulDiv(T0K, B * DenScale, den) - tZero + TempScale \div 2

(* m.floor *)
Floor(x) == x \div TempScale

(* (short)(...) : conversion toward zero *)
ToShort(x) == IF x < 0 THEN -((-x) \div TempScale) ELSE x \div TempScale

(* '{rlvals:4.6f}' : six decimals, then read back by the C compiler *)
Fmt6(x) == RoundDiv(x, LnScale \div 10^6) * (LnScale \div 10^6)

(* #define TV_n(rval) (short)(1.0/(1.0/(25.0+T0_n)+rval/BETA_n)-T0_n+0.5) *)
TV(rval, BETA) == ToShort(Steinhart(rval, BETA))

(* np.linspace(a, b, n), 1-based *)
Linspace(a, b, n) ==
    [k \in 1..n |-> IF n = 1 THEN a ELSE a + ((k - 1) * (b - a)) \div (n - 1)]

----------------------------------------------------------------------------
(* Program state                                                           *)

Uninit == "uninit"

NoFile == [exists |-> FALSE, open |-> FALSE, header |-> FALSE,
           rows |-> <<>>, trailer |-> FALSE]

NoCall == [op |-> "none"]

(* The configured sampling range, and a range with adcStart = adcStop *)
Configs == { [adcStart |-> adcStartDefault, adcStop |-> adcStopDefault],
             [adcStart |-> adcStopDefault,  adcStop |-> adcStopDefault] }

Init ==
    /\ cfg \in Configs
    /\ pc = "setup"
    /\ numResult = 0
    /\ adc = <<>>
    /\ rlvals = <<>>
    /\ t = 1
    /\ i = 0
    /\ temperatureStepSize = 0
    /\ oldTx = 0
    /\ lines = 0
    /\ fout = 0
    /\ files = [f \in 1..Len(tbls) |-> NoFile]
    /\ stdout = <<>>
    /\ call = NoCall

(* numResult=adcStop-adcStart+1; adc=np.linspace(...); rlvals=np.empty()   *)
Setup ==
    /\ pc = "setup"
    /\ LET n == cfg.adcStop - cfg.adcStart + 1
       IN  /\ n >= 0
           /\ numResult' = n
           /\ adc' = Linspace(cfg.adcStart, cfg.adcStop, n)
           /\ rlvals' = [k \in 1..n |-> Uninit]
           /\ pc' = IF n = 0 THEN "table" ELSE "fill"
    /\ i' = 0
    /\ UNCHANGED <<cfg, t, temperatureStepSize, oldTx, lines, fout, files,
                   stdout, call>>

(* for i in range(0,numResult): rlvals[i]=np.log(v2r(adc[i])/rRef)         *)
Fill ==
    /\ pc = "fill"
    /\ i < numResult
    /\ rlvals' = [rlvals EXCEPT ![i + 1] = RlVal(adc[i + 1])]
    /\ i' = i + 1
    /\ pc' = IF i + 1 = numResult THEN "table" ELSE "fill"
    /\ UNCHANGED <<cfg, numResult, adc, t, temperatureStepSize, oldTx, lines,
                   fout, files, stdout, call>>

(* no dense mode: the spacing also for tbl = 0 *)
StepSizeOf_NoDense(tbl) == ((maxTemp - minTemp) * TempScale) \div 100

(* a tenth of the spacing *)
StepSizeOf_Tenth(tbl) ==
    IF tbl = 0 THEN 0 ELSE ((maxTemp - minTemp) * TempScale) \div 1000

(* temperatureStepSize per tbl, in 1/TempScale degree *)
StepSizeOf(tbl) ==
    IF tbl = 0 THEN 0 ELSE ((maxTemp - minTemp) * TempScale) \div 100

(* fout=open('thermistortable_{tbl}.h','w').  Rebinding fout drops the     *)
(* last reference to the previous file object, which is never closed       *)
(* explicitly: whether it is closed then is up to the interpreter.         *)
OpenTable ==
    /\ pc = "table"
    /\ t <= Len(tbls)
    /\ temperatureStepSize' = StepSizeOf(tbls[t])
    /\ \E reclaimed \in BOOLEAN :
          files' = [f \in 1..Len(tbls) |->
                       IF f = t
                       THEN [NoFile EXCEPT !.exists = TRUE, !.open = TRUE]
                       ELSE IF f = fout /\ reclaimed
                            THEN [files[f] EXCEPT !.open = FALSE]
                            ELSE files[f]]
    /\ fout' = t
    /\ pc' = "header"
    /\ UNCHANGED <<cfg, numResult, adc, rlvals, t, i, oldTx, lines, stdout,
                   call>>

(* open() raises OSError *)
OpenFail ==
    /\ pc = "table"
    /\ t <= Len(tbls)
    /\ temperatureStepSize' = StepSizeOf(tbls[t])
    /\ pc' = "failed"
    /\ UNCHANGED <<cfg, numResult, adc, rlvals, t, i, oldTx, lines, fout,
                   files, stdout, call>>

(* oldTx set for the first table only *)
WriteHeader_ResetOnce ==
    /\ pc = "header"
    /\ files' = [files EXCEPT ![fout].header = TRUE]
    /\ oldTx' = IF t = 1 THEN maxTemp * TempScale ELSE oldTx
    /\ lines' = 0
    /\ i' = 0
    /\ pc' = "rows"
    /\ UNCHANGED <<cfg, numResult, adc, rlvals, t, temperatureStepSize, fout,
                   stdout, call>>

(* print(string1.format(...),'{',file=fout); oldTx=maxTemp; lines=0        *)
WriteHeader ==
    /\ pc = "header"
    /\ files' = [files EXCEPT ![fout].header = TRUE]
    /\ oldTx' = maxTemp * TempScale
    /\ lines' = 0
    /\ i' = 0
    /\ pc' = "rows"
    /\ UNCHANGED <<cfg, numResult, adc, rlvals, t, temperatureStepSize, fout,
                   stdout, call>>

HeaderFail ==
    /\ pc = "header"
    /\ pc' = "failed"
    /\ UNCHANGED <<cfg, numResult, adc, rlvals, t, i, temperatureStepSize,
                   oldTx, lines, fout, files, stdout, call>>

tx1(k) == Steinhart(rlvals[k], TXBETA1)
tx2(k) == Steinhart(rlvals[k], TXBETA2)
tx3(k) == Steinhart(rlvals[k], TXBETA3)

(* stringInstance.format(...), instanceComment.format(...) *)
RowOf(k) ==
    [adc  |-> adc[k],
     rval |-> Fmt6(rlvals[k]),
     ann  |-> <<Floor(tx1(k)), Floor(tx2(k)), Floor(tx3(k))>>]

(* if tx2<oldTx: oldTx=oldTx-temperatureStepSize; print(row); lines+=1     *)
Retain ==
    /\ pc = "rows"
    /\ i < numResult
    /\ tx2(i + 1) < oldTx
    /\ oldTx' = oldTx - temperatureStepSize
    /\ files' = [files EXCEPT ![fout].rows = Append(@, RowOf(i + 1))]
    /\ lines' = lines + 1
    /\ i' = i + 1
    /\ UNCHANGED <<cfg, pc, numResult, adc, rlvals, t, temperatureStepSize,
                   fout, stdout, call>>

(* the row's print raises: oldTx is already stepped, lines is not *)
RetainFail ==
    /\ pc = "rows"
    /\ i < numResult
    /\ tx2(i + 1) < oldTx
    /\ oldTx' = oldTx - temperatureStepSize
    /\ pc' = "failed"
    /\ UNCHANGED <<cfg, numResult, adc, rlvals, t, i, temperatureStepSize,
                   lines, fout, files, stdout, call>>

Drop ==
    /\ pc = "rows"
    /\ i < numResult
    /\ ~(tx2(i + 1) < oldTx)
    /\ i' = i + 1
    /\ UNCHANGED <<cfg, pc, numResult, adc, rlvals, t, temperatureStepSize,
                   oldTx, lines, fout, files, stdout, call>>

(* print('};',file=fout); print("Liines output=",lines); next tbl          *)
WriteTrailer ==
    /\ pc = "rows"
    /\ i = numResult
    /\ files' = [files EXCEPT ![fout].trailer = TRUE]
    /\ stdout' = Append(stdout, lines)
    /\ t' = t + 1
    /\ pc' = IF t = Len(tbls) THEN "close" ELSE "table"
    /\ UNCHANGED <<cfg, numResult, adc, rlvals, i, temperatureStepSize, oldTx,
                   lines, fout, call>>

TrailerFail ==
    /\ pc = "rows"
    /\ i = numResult
    /\ pc' = "failed"
    /\ UNCHANGED <<cfg, numResult, adc, rlvals, t, i, temperatureStepSize,
                   oldTx, lines, fout, files, stdout, call>>

(* fout.close(), after the loop over tbls *)
Close ==
    /\ pc = "close"
    /\ files' = [files EXCEPT ![fout].open = FALSE]
    /\ pc' = "done"
    /\ UNCHANGED <<cfg, numResult, adc, rlvals, t, i, temperatureStepSize,
                   oldTx, lines, fout, stdout, call>>

Next ==
    \/ Setup
    \/ Fill
    \/ OpenTable
    \/ OpenFail
    \/ WriteHeader
    \/ HeaderFail
    \/ Retain
    \/ RetainFail
    \/ Drop
    \/ WriteTrailer
    \/ TrailerFail
    \/ Close

Spec == Init /\ [][Next]_vars

----------------------------------------------------------------------------
(* The functions and projections called on their own                       *)

Betas == <<TXBETA1, TXBETA2, TXBETA3>>

(* log-ratios of the configured range, and x = -1.0 *)
LogRatios ==
    {RlVal(c) : c \in adcStartDefault..adcStopDefault} \cup {-LnScale}

InitFn ==
    /\ Init
    /\ cfg.adcStart = adcStartDefault

CallV2R ==
    /\ call.op = "none"
    /\ \E c \in 0..(adcFS + BeyondFS), ty \in {"float64", "int"} :
          call' = [op |-> "v2r", in |-> c, out |-> v2r(c, ty)]
    /\ UNCHANGED progVars

(* r2v applied to the resistance v2r has just returned *)
CallR2V ==
    /\ call.op = "v2r"
    /\ call.out.kind = "value"
    /\ call.out.val[1] >= 0
    /\ call' = [op |-> "r2v", in |-> call.out.val, code |-> call.in,
                out |-> r2v(call.out.val)]
    /\ UNCHANGED progVars

CallSteinhart ==
    /\ call.op = "none"
    /\ \E x \in LogRatios :
          call' = [op |-> "tx", in |-> x,
                   out |-> [b \in 1..3 |-> Steinhart(x, Betas[b])]]
    /\ UNCHANGED progVars

Return ==
    /\ call.op # "none"
    /\ call' = NoCall
    /\ UNCHANGED progVars

NextFn ==
    \/ CallV2R
    \/ CallR2V
    \/ CallSteinhart
    \/ Return

SpecFn == InitFn /\ [][NextFn]_vars

----------------------------------------------------------------------------
(* Properties                                                              *)

DefaultCfg == cfg.adcStart = adcStartDefault /\ cfg.adcStop = adcStopDefault

MaxTx == maxTemp * TempScale

LastRow(f) == files[f].rows[Len(files[f].rows)]

AdcOf(rows) == [k \in 1..Len(rows) |-> rows[k].adc]

(* C1: in a normal-mode table (tbl # 0) the floored tx2 annotations of     *)
(* consecutive retained rows are strictly decreasing, with no duplicate.   *)
C1_StrictlyDecreasing ==
    \A f \in 1..Len(tbls) :
        tbls[f] # 0 =>
            \A k \in 1..(Len(files[f].rows) - 1) :
                /\ files[f].rows[k + 1].ann[2] < files[f].rows[k].ann[2]
                /\ files[f].rows[k + 1].adc > files[f].rows[k].adc

C1_Witness ==
    /\ DefaultCfg
    /\ tbls[1] # 0
    /\ files[1].trailer
    /\ Len(files[1].rows) >= 100

(* C2 as stated: a completed dense table (tbl = 0) holds one row per       *)
(* sampled code, adcStop - adcStart + 1 rows.                              *)
C2_EverySampleKept ==
    \A f \in 1..Len(tbls) :
        (tbls[f] = 0 /\ files[f].trailer) =>
            Len(files[f].rows) = cfg.adcStop - cfg.adcStart + 1

(* sampled codes whose tx2 is not below maxTemp *)
HotCodes ==
    {c \in adcStartDefault..adcStopDefault :
        ~(Steinhart(RlVal(c), TXBETA2) < MaxTx)}

NotHot(c) == c \notin HotCodes

(* C2 amended: in dense mode the threshold stays at maxTemp, and the rows  *)
(* written are exactly the sampled codes whose tx2 is strictly below       *)
(* maxTemp, in order; the codes with tx2 at or above maxTemp are dropped.  *)
C2_DenseKeepsBelowMax ==
    (fout > 0 /\ tbls[fout] = 0 /\ files[fout].header) =>
        /\ temperatureStepSize = 0
        /\ pc = "rows" => oldTx = MaxTx
        /\ AdcOf(files[fout].rows) = SelectSeq(SubSeq(adc, 1, i), NotHot)
        /\ files[fout].trailer =>
              /\ i = numResult
              /\ Len(files[fout].rows)
                    = Cardinality({adc[k] : k \in 1..numResult} \ HotCodes)

C2_Witness ==
    /\ DefaultCfg
    /\ fout > 0
    /\ tbls[fout] = 0
    /\ files[fout].trailer
    /\ Len(files[fout].rows) > 0
    /\ Len(files[fout].rows) < numResult

(* C3: a normal-mode table never holds more than                           *)
(* (maxTemp - minTemp)/stepSize + 1 rows (101).                            *)
C3_RowBound ==
    \A f \in 1..Len(tbls) :
        tbls[f] # 0 =>
            Len(files[f].rows)
                <= ((maxTemp - minTemp) * TempScale) \div StepSizeOf(tbls[f]) + 1

(* C4: r2v(v2r(c)) = c for every code 0 < c < adcFS.                       *)
C4_RoundTrip ==
    (call.op = "r2v" /\ 0 < call.code /\ call.code < adcFS) =>
        call.out = RInt(call.code)

C4_Witness ==
    /\ call.op = "r2v"
    /\ call.code = adcFS - 1
    /\ call.in = RInt(rPullup * (adcFS - 1))

(* C5: v2r called with a code at or beyond adcFS ends in a domain error    *)
(* and returns no value.                                                   *)
C5_DomainError ==
    (call.op = "v2r" /\ call.in >= adcFS) =>
        call.out.kind = "ZeroDivisionError"

(* the configuration the validation is to accept *)
ValidConfig ==
    /\ rRef > 0
    /\ rPullup > 0
    /\ 0 < cfg.adcStart /\ cfg.adcStart < adcFS
    /\ 0 < cfg.adcStop /\ cfg.adcStop < adcFS
    /\ cfg.adcStart < cfg.adcStop
    /\ \A b \in 1..3 : Betas[b] > 0

(* C6: with an invalid configuration no ADC code is sampled, no log-ratio  *)
(* is computed and no output file is opened.                               *)
C6_FailFast ==
    ~ValidConfig =>
        /\ pc \in {"setup", "failed"}
        /\ \A k \in DOMAIN rlvals : rlvals[k] = Uninit
        /\ \A f \in 1..Len(tbls) : ~files[f].exists

Complete(f) == files[f].header /\ files[f].trailer

(* C8: after a failure every output file is absent or complete, and at the *)
(* end of the run every output file that was opened is closed.             *)
C8_NoPartialArtifact ==
    /\ pc = "failed" =>
          \A f \in 1..Len(tbls) : ~files[f].exists \/ Complete(f)
    /\ pc \in {"done", "failed"} =>
          \A f \in 1..Len(tbls) : files[f].exists => ~files[f].open

C9_Threshold ==
    pc = "rows" =>
        /\ oldTx = MaxTx - lines * temperatureStepSize
        /\ lines = Len(files[fout].rows)

C9_Step ==
    /\ (pc = "rows" /\ i < numResult /\ pc' = "rows") =>
          /\ (tx2(i + 1) < oldTx) <=> (lines' = lines + 1)
          /\ (tx2(i + 1) < oldTx) =>
                /\ Len(files'[fout].rows) = lines + 1
                /\ files'[fout].rows[lines + 1].adc = adc[i + 1]
          /\ ~(tx2(i + 1) < oldTx) =>
                /\ oldTx' = oldTx
                /\ lines' = lines
                /\ files' = files
    /\ (pc = "header" /\ pc' = "rows") =>
          /\ oldTx' = MaxTx
          /\ lines' = 0
          /\ files'[fout].rows = <<>>

(* C9: while a table's codes are walked the threshold oldTx equals         *)
(* maxTemp - k * temperatureStepSize, k the number of rows retained so far *)
(* in this table; a code is retained iff its tx2 is strictly below the     *)
(* threshold; a dropped code changes neither; both are reset at the start  *)
(* of each table.                                                          *)
C9_SelectionThreshold == [](C9_Threshold) /\ [][C9_Step]_vars

C9_Witness ==
    /\ DefaultCfg
    /\ pc = "rows"
    /\ t = 2
    /\ lines > 50
    /\ i > lines + 50
    /\ i < numResult

(* C10: the integers of a row's comment equal the integers the TV_ macro   *)
(* yields for the row's printed log-ratio with BETA = 3380, 3950, 4500.    *)
(* Every emitted row is the last row of the file being written in the      *)
(* state that follows its print.                                           *)
C10_AnnotationIsMacroValue ==
    (fout > 0 /\ Len(files[fout].rows) > 0) =>
        \A b \in 1..3 :
            LastRow(fout).ann[b] = TV(LastRow(fout).rval, Betas[b])

====
